---------------------------- MODULE Spec2Model ----------------------------
(***************************************************************************)
(* The peewee-backed priority job queue of np_queuey                       *)
(* (src/np_queuey/jobs/pipeline_sorting.py).                               *)
(*                                                                         *)
(* The table of PeeweeJobQueue rows lives in one shared sqlite file.       *)
(* Worker processes hold in-memory model instances (copies of a row, as    *)
(* returned by add() or next()) and call the instance methods              *)
(* set_started / set_finished / set_queued, each of which assigns fields   *)
(* of the instance and then save()s the whole instance back to the row     *)
(* with the same primary key.                                              *)
(*                                                                         *)
(* The upload queue of behavior sessions                                   *)
(* (src/np_queuey/jobs/dynamicrouting_behavior_session_mtrain_upload.py)   *)
(* is a table of a second sqlite file, which every function reaches        *)
(* through task_db_cursor: one exclusive transaction per `with` block,     *)
(* committed when the block exits normally and rolled back when it raises. *)
(***************************************************************************)
EXTENDS Integers, Sequences, FiniteSets, TLC

VARIABLES
    store,  \* the table: the set of rows of PeeweeJobQueue
    inst,   \* inst[w]: the model instance process w holds in memory, or None
    last,   \* the last call made on the queue and what it returned or raised
    now,    \* the reading of datetime.datetime.now
    tie,    \* the order in which sqlite returns rows the ORDER BY leaves tied
    db,      \* the task database file: is the upload table created, and its rows
    journal, \* the rollback journal: the file as it was when the open transaction began
    lock,    \* the process holding the exclusive lock of the task database, or ""
    proc,    \* proc[p]: the call process p is in and where it stands in it
    ulast,   \* the last call on the upload queue that ended, and how
    pre      \* the task database as it was when the last call or block began

\* the job queue
qvars == <<store, inst, last, tie>>

\* the upload queue
uvars == <<db, journal, lock, proc, ulast, pre>>

vars == <<store, inst, last, now, tie, db, journal, lock, proc, ulast, pre>>

---------------------------------------------------------------------------
(* Bounds of the model *)

\* datetime.datetime.now reads 0 .. MaxClock
MaxClock == 1

\* session folder names
Keys == {"s1", "s2"}

\* values of the priority keyword given to add
Priorities == {0, 5}

\* processes calling the queue
Workers == {"w1", "w2"}

\* np_config.HOSTNAME on the machine process w runs on
HOSTNAME(w) == IF w = "w1" THEN "h1" ELSE "h2"

\* processes calling the upload queue
Procs == {"p1", "p2"}

\* behavior session ids
Ids == {-1, 1}

---------------------------------------------------------------------------
(* The model class: fields and their defaults *)

\* IntegerField(default=0)
priority_default == 0

\* CharField(default='')
hostname_default == ""

\* BooleanField(default=False)
finished_default == FALSE

\* no model instance held
None == [none |-> TRUE]

\* no keyword arguments
NoKwargs == [x \in {} |-> 0]

\* the **kwargs of add: nothing, or priority=p
Kwargs == {NoKwargs} \cup {[priority |-> p] : p \in Priorities}

\* np_session.Session(key): what add makes of a str or int argument
Session(key) == [folder |-> key]

\* job-like objects handed to add: instances of a job class that are not rows
\* of this table (built in memory, or read from another queue's table)
JobArgs ==
    [folder   : Keys,
     priority : {priority_default} \cup Priorities,
     added    : {0},
     hostname : {hostname_default},
     finished : {finished_default}]

\* isinstance(session_or_job, Job): the object has the attributes of the protocol
IsJob(session_or_job) ==
    {"priority", "added", "hostname", "finished"} \subseteq DOMAIN session_or_job

\* session_or_job.folder for a Session, session_or_job.session.folder for a job
FolderOf(session_or_job) == session_or_job.folder

\* add that lets the job's priority replace the one the caller gave
setdefault_priority_Overrides(session_or_job, kwargs) ==
    IF IsJob(session_or_job)
    THEN [priority |-> session_or_job.priority]
    ELSE kwargs

\* if isinstance(session_or_job, Job):
\*     kwargs.setdefault('priority', session_or_job.priority)
setdefault_priority(session_or_job, kwargs) ==
    IF IsJob(session_or_job) /\ "priority" \notin DOMAIN kwargs
    THEN [priority |-> session_or_job.priority]
    ELSE kwargs

\* `is_started`: bool(self.hostname) and not bool(self.finished)
is_started(job) == job.hostname # "" /\ ~job.finished

\* rows of table st with primary key `folder`
RowsOf(st, folder) == {r \in st : r.folder = folder}

\* Model.save(): UPDATE every field of the instance WHERE folder = job.folder
save(st, job) == {IF r.folder = job.folder THEN job ELSE r : r \in st}

\* create that drops the keyword fields
NewRow_DropsKwargs(folder, kwargs, t) ==
    [folder   |-> folder,
     priority |-> priority_default,
     added    |-> t,
     hostname |-> hostname_default,
     finished |-> finished_default]

\* the row Model.create builds: given fields, defaults for the others
NewRow(folder, kwargs, t) ==
    [folder   |-> folder,
     priority |-> IF "priority" \in DOMAIN kwargs THEN kwargs.priority
                  ELSE priority_default,
     added    |-> t,
     hostname |-> hostname_default,
     finished |-> finished_default]

\* a table without the primary key constraint
ViolatesPrimaryKey_Never(st, folder) == FALSE

\* the primary key constraint on `folder`: INSERT of an existing key fails
ViolatesPrimaryKey(st, folder) == RowsOf(st, folder) # {}

---------------------------------------------------------------------------
(* select_unprocessed and next *)

\* the where clause without the hostname test
where_unprocessed_IgnoresHostname(st) == {r \in st : r.finished = FALSE}

\* the where clause without the finished test
where_unprocessed_IgnoresFinished(st) == {r \in st : r.hostname = ""}

\* .where((cls.finished == False) & (cls.hostname == ''))
where_unprocessed(st) == {r \in st : r.finished = FALSE /\ r.hostname = ""}

\* order_by with the priority ascending
order_by_PriorityAscending(a, b) ==
    \/ a.priority < b.priority
    \/ a.priority = b.priority /\ a.added < b.added

\* order_by with the newest row first
order_by_AddedDescending(a, b) ==
    \/ a.priority > b.priority
    \/ a.priority = b.priority /\ a.added > b.added

\* .order_by(cls.priority.desc(), cls.added.asc()): row a sorts before row b
order_by(a, b) ==
    \/ a.priority > b.priority
    \/ a.priority = b.priority /\ a.added < b.added

\* position of a folder in the engine's order for tied rows
TieRank(t, folder) == CHOOSE i \in 1..Len(t) : t[i] = folder

\* row a is returned before row b: ORDER BY first, the engine's order for ties
ReturnedBefore(t, a, b) ==
    \/ order_by(a, b)
    \/ ~order_by(b, a) /\ TieRank(t, a.folder) < TieRank(t, b.folder)

\* the sequences listing each element of set S once
Listings(S) ==
    {q \in [1..Cardinality(S) -> S] : \A i, j \in 1..Cardinality(S) : q[i] = q[j] => i = j}

\* select_unprocessed(): the rows of the query, in the order they are returned
select_unprocessed(st, t) ==
    CHOOSE q \in Listings(where_unprocessed(st)) :
        \A i, j \in 1..Len(q) : i < j => ~ReturnedBefore(t, q[j], q[i])

\* query.get(): the first row, or DoesNotExist
get(q) == IF Len(q) = 0 THEN None ELSE q[1]

---------------------------------------------------------------------------
(* The calls *)

\* a call of process w and how it ended: "ok", or the exception it raised
Call(op, w, ret) == [op |-> op, w |-> w, ret |-> ret]

\* a call of add that returned normally, with the arguments it was given
CallAdd(w, session_or_job, kwargs) ==
    [op |-> "add", w |-> w, ret |-> "ok",
     session_or_job |-> session_or_job, kwargs |-> kwargs]

\* PeeweeJobQueue.add(session_or_job, **kwargs) -> cls.create(folder=..., **kwargs)
add(w, session_or_job, kwargs) ==
    LET folder == FolderOf(session_or_job)
        fields == setdefault_priority(session_or_job, kwargs)
    IN
    /\ IF ViolatesPrimaryKey(store, folder)
       THEN /\ UNCHANGED <<store, inst>>
            /\ last' = Call("add", w, "IntegrityError")
       ELSE /\ store' = store \cup {NewRow(folder, fields, now)}
            /\ inst' = [inst EXCEPT ![w] = NewRow(folder, fields, now)]
            /\ last' = CallAdd(w, session_or_job, kwargs)
    /\ UNCHANGED <<now, tie, uvars>>

\* a next() that also claims the job it returns for the caller's host
next_Claims(w) ==
    LET job == get(select_unprocessed(store, tie)) IN
    /\ IF job = None
       THEN /\ UNCHANGED <<inst, store>>
            /\ last' = Call("next", w, "DoesNotExist")
       ELSE /\ inst' = [inst EXCEPT ![w] = [job EXCEPT !.hostname = HOSTNAME(w)]]
            /\ store' = save(store, [job EXCEPT !.hostname = HOSTNAME(w)])
            /\ last' = Call("next", w, "ok")
    /\ UNCHANGED <<now, tie, uvars>>

\* PeeweeJobQueue.next(): select_unprocessed().get()
next(w) ==
    LET job == get(select_unprocessed(store, tie)) IN
    /\ IF job = None
       THEN /\ UNCHANGED inst
            /\ last' = Call("next", w, "DoesNotExist")
       ELSE /\ inst' = [inst EXCEPT ![w] = job]
            /\ last' = Call("next", w, "ok")
    /\ UNCHANGED <<store, now, tie, uvars>>

\* set_finished that puts the job back in the queue
set_finished_Requeues(w) ==
    /\ inst[w] # None
    /\ LET job == [inst[w] EXCEPT !.hostname = "", !.finished = FALSE] IN
        /\ inst' = [inst EXCEPT ![w] = job]
        /\ store' = save(store, job)
        /\ last' = Call("set_finished", w, "ok")
    /\ UNCHANGED <<now, tie, uvars>>

\* set_finished without the save(): only the instance changes
set_finished_NoSave(w) ==
    /\ inst[w] # None
    /\ inst' = [inst EXCEPT ![w] = [inst[w] EXCEPT !.finished = TRUE]]
    /\ last' = Call("set_finished", w, "ok")
    /\ UNCHANGED <<store, now, tie, uvars>>

\* job.set_finished(): self.finished = True; self.save()
set_finished(w) ==
    /\ inst[w] # None
    /\ LET job == [inst[w] EXCEPT !.finished = TRUE] IN
        /\ inst' = [inst EXCEPT ![w] = job]
        /\ store' = save(store, job)
        /\ last' = Call("set_finished", w, "ok")
    /\ UNCHANGED <<now, tie, uvars>>

\* set_started that also stamps the job with the time of the call
set_started_Restamps(w, hostname) ==
    /\ inst[w] # None
    /\ LET job == [inst[w] EXCEPT !.hostname = hostname, !.finished = FALSE,
                                  !.added = now] IN
        /\ inst' = [inst EXCEPT ![w] = job]
        /\ store' = save(store, job)
        /\ last' = Call("set_started", w, "ok")
    /\ UNCHANGED <<now, tie, uvars>>

\* job.set_started(hostname=np_config.HOSTNAME):
\* self.hostname = hostname; self.finished = False; self.save()
set_started(w, hostname) ==
    /\ inst[w] # None
    /\ LET job == [inst[w] EXCEPT !.hostname = hostname, !.finished = FALSE] IN
        /\ inst' = [inst EXCEPT ![w] = job]
        /\ store' = save(store, job)
        /\ last' = Call("set_started", w, "ok")
    /\ UNCHANGED <<now, tie, uvars>>

\* set_queued that resets finished but leaves the hostname
set_queued_KeepsHostname(w) ==
    /\ inst[w] # None
    /\ LET job == [inst[w] EXCEPT !.finished = FALSE] IN
        /\ inst' = [inst EXCEPT ![w] = job]
        /\ store' = save(store, job)
        /\ last' = Call("set_queued", w, "ok")
    /\ UNCHANGED <<now, tie, uvars>>

\* job.set_queued(): self.hostname = ''; self.finished = False; self.save()
set_queued(w) ==
    /\ inst[w] # None
    /\ LET job == [inst[w] EXCEPT !.hostname = "", !.finished = FALSE] IN
        /\ inst' = [inst EXCEPT ![w] = job]
        /\ store' = save(store, job)
        /\ last' = Call("set_queued", w, "ok")
    /\ UNCHANGED <<now, tie, uvars>>

\* time passes: datetime.datetime.now reads a later value
Tick ==
    /\ now < MaxClock
    /\ now' = now + 1
    /\ UNCHANGED <<qvars, uvars>>

---------------------------------------------------------------------------
(* The specification: an empty table, any calls from any process *)

\* the task database before anything has connected to it
NoTable == [created |-> FALSE, rows |-> {}]

\* no transaction is open
NoJournal == [open |-> FALSE]

\* process p is in no call
Idle == [at |-> "idle"]

\* no call on the upload queue has ended yet
NoCall == [p |-> "", fn |-> "none", id |-> 0, ret |-> "ok", value |-> {}, wrote |-> FALSE]

\* the upload queue is not in use
UploadUnused ==
    /\ db = NoTable
    /\ journal = NoJournal
    /\ lock = ""
    /\ proc = [p \in Procs |-> Idle]
    /\ ulast = NoCall
    /\ pre = NoTable

Init ==
    /\ store = {}
    /\ inst = [w \in Workers |-> None]
    /\ last = Call("none", "", "ok")
    /\ now = 0
    /\ tie \in Listings(Keys)
    /\ UploadUnused

Next ==
    \/ \E w \in Workers, key \in Keys, kwargs \in Kwargs : add(w, Session(key), kwargs)
    \/ \E w \in Workers : next(w)
    \/ \E w \in Workers : set_finished(w)
    \/ \E w \in Workers : set_started(w, HOSTNAME(w))
    \/ \E w \in Workers : set_queued(w)
    \/ Tick

Spec == Init /\ [][Next]_vars

\* the same calls, and add given job-like objects as well as bare keys
NextJobs ==
    \/ \E w \in Workers, job \in JobArgs, kwargs \in Kwargs : add(w, job, kwargs)
    \/ Next

SpecJobs == Init /\ [][NextJobs]_vars

---------------------------------------------------------------------------
(* Vocabulary of the properties *)

\* a job is eligible for selection iff finished = false and hostname = ''
IsEligible(r) == r.finished = FALSE /\ r.hostname = ""

\* the eligible rows of the table
Eligible == {r \in store : IsEligible(r)}

\* what a call of next() in the current state returns (None: DoesNotExist)
NextJob == get(select_unprocessed(store, tie))

\* the last call was `op` and returned normally
Returned(op) == last.op = op /\ last.ret = "ok"

\* the instance held by the process that made the last call
LastJob == inst[last.w]

---------------------------------------------------------------------------
(* C1: of two eligible jobs, next() returns the one with the higher        *)
(* priority and never the other, whichever was added first and whatever    *)
(* their added timestamps are.                                             *)

C1_HigherPriorityFirst ==
    \A A, B \in Eligible :
        A.priority > B.priority =>
            /\ NextJob # None
            /\ NextJob # B
            /\ NextJob.priority >= A.priority
            /\ Returned("next") => LastJob # B /\ LastJob.priority >= A.priority

\* next() has just returned A although B, of lower priority, was added earlier
C1_Witness ==
    /\ Returned("next")
    /\ \E A, B \in Eligible :
        /\ A.priority > B.priority
        /\ A.added > B.added
        /\ LastJob = A

---------------------------------------------------------------------------
(* C2: of two eligible jobs of equal priority, next() returns the one with *)
(* the earlier added timestamp and never the later one (FIFO within one    *)
(* priority level), in every state that next / set_finished cycles reach.  *)

C2_FifoWithinPriority ==
    \A A, B \in Eligible :
        A.priority = B.priority /\ A.added < B.added =>
            /\ NextJob # None
            /\ NextJob # B
            /\ Returned("next") => LastJob # B

\* next() has just returned A, added before B at the same priority, although
\* the engine would list B first among tied rows
C2_Witness ==
    /\ Returned("next")
    /\ \E A, B \in Eligible :
        /\ A.priority = B.priority
        /\ A.added < B.added
        /\ TieRank(tie, B.folder) < TieRank(tie, A.folder)
        /\ LastJob = A

---------------------------------------------------------------------------
(* The claim protocol on its own: the table holds one eligible job and     *)
(* every worker runs next() and then set_started(job) on what it got.      *)

\* every row the calls can leave in the table
Rows ==
    [folder   : Keys,
     priority : {priority_default} \cup Priorities,
     added    : 0..MaxClock,
     hostname : {hostname_default} \cup {HOSTNAME(w) : w \in Workers},
     finished : BOOLEAN]

\* the tables with at most one row per key
Tables ==
    UNION {{{f[k] : k \in S} : f \in {g \in [S -> Rows] : \A k \in S : g[k].folder = k}} :
           S \in SUBSET Keys}

InitClaim ==
    /\ store \in {T \in Tables : Cardinality(where_unprocessed(T)) = 1}
    /\ inst = [w \in Workers |-> None]
    /\ last = Call("none", "", "ok")
    /\ now = MaxClock
    /\ tie \in Listings(Keys)
    /\ UploadUnused

\* a worker polls until next() hands it a job
Poll(w) == inst[w] = None /\ next(w)

\* a worker that was handed a job claims it
Claim(w) == inst[w] # None /\ ~is_started(inst[w]) /\ set_started(w, HOSTNAME(w))

NextClaim ==
    \/ \E w \in Workers : Poll(w)
    \/ \E w \in Workers : Claim(w)

SpecClaim == InitClaim /\ [][NextClaim]_vars

---------------------------------------------------------------------------
(* C3: when the workers race through next() + set_started(job, own         *)
(* hostname) for the one eligible job, exactly one of them ends up holding *)
(* it as claimed; a job is never held as claimed by two workers at once.   *)

\* worker w's set_started returned normally: w holds its job as started
Claimed(w) == inst[w] # None /\ is_started(inst[w])

C3_ExactlyOneWorkerClaims ==
    \A w1, w2 \in Workers :
        Claimed(w1) /\ Claimed(w2) /\ inst[w1].folder = inst[w2].folder => w1 = w2

---------------------------------------------------------------------------
(* C4: after set_started(job, h) the job is started (hostname non-empty,   *)
(* finished false), in the instance and in the table, and next() does not  *)
(* return it; whatever is called later, a job that is not eligible becomes *)
(* eligible again only by a set_queued call on it.                         *)

\* some row with this key is eligible in table st
EligibleIn(st, folder) == \E r \in st : r.folder = folder /\ IsEligible(r)

\* the step is a set_queued call on the job with this key
SetQueuedOn(folder) ==
    /\ last'.op = "set_queued"
    /\ inst'[last'.w].folder = folder
    /\ inst[last'.w] # None
    /\ inst[last'.w].folder = folder

C4_StartedStaysInvisible ==
    [][/\ last'.op = "set_started" =>
            /\ is_started(inst'[last'.w])
            /\ \A r \in store' : r.folder = inst'[last'.w].folder => is_started(r)
            /\ get(select_unprocessed(store', tie')) # None =>
                    get(select_unprocessed(store', tie')).folder # inst'[last'.w].folder
       /\ \A r \in store :
            ~EligibleIn(store, r.folder) /\ EligibleIn(store', r.folder)
                => SetQueuedOn(r.folder)
      ]_vars

\* a worker has just started a job while another job is eligible: next()
\* returns the other one
C4_Witness ==
    /\ Returned("set_started")
    /\ LastJob \in store
    /\ is_started(LastJob)
    /\ NextJob # None
    /\ NextJob.folder # LastJob.folder

---------------------------------------------------------------------------
(* C5: after set_finished(job) the job is finished, in the instance and in *)
(* the table, and next() does not return it but the best remaining         *)
(* eligible job (highest priority, then earliest added); a finished job,   *)
(* also one a later set_started took up again, becomes eligible again only *)
(* by a set_queued call on it.                                             *)

\* X is ahead of R in the queue: higher priority, or the same and added earlier
Outranks(X, R) ==
    \/ X.priority > R.priority
    \/ X.priority = R.priority /\ X.added < R.added

\* R is what next() may return from table st: a best eligible row, or None if
\* there is none
BestRemaining(st, R) ==
    IF \E X \in st : IsEligible(X)
    THEN R \in st /\ IsEligible(R) /\ \A X \in st : IsEligible(X) => ~Outranks(X, R)
    ELSE R = None

C5_FinishedStaysInvisible ==
    [][/\ last'.op = "set_finished" =>
            /\ inst'[last'.w].finished
            /\ \A r \in store' : r.folder = inst'[last'.w].folder => r.finished
            /\ \E r \in store' : r.folder = inst'[last'.w].folder
            /\ BestRemaining(store', get(select_unprocessed(store', tie')))
            /\ get(select_unprocessed(store', tie')) # None =>
                    get(select_unprocessed(store', tie')).folder # inst'[last'.w].folder
       /\ \A r \in store :
            (r.finished \/ r.hostname # "") /\ EligibleIn(store', r.folder)
                => SetQueuedOn(r.folder)
      ]_vars

\* the scenario: s1 (priority 0, added first) and s2 (priority 5, added later);
\* s2 has just been set finished and next() returns s1
C5_Witness ==
    /\ Returned("set_finished")
    /\ LastJob = [folder |-> "s2", priority |-> 5, added |-> 1,
                  hostname |-> "", finished |-> TRUE]
    /\ store = {LastJob,
                [folder |-> "s1", priority |-> 0, added |-> 0,
                 hostname |-> "", finished |-> FALSE]}
    /\ NextJob.folder = "s1"

---------------------------------------------------------------------------
(* C6: set_queued(job) leaves hostname = '' and finished = false in the    *)
(* instance and in the table, so the job, started or not before, is        *)
(* eligible again; next() returns it if it is ahead of every other         *)
(* eligible job by priority, then added.                                   *)

C6_SetQueuedRestoresEligibility ==
    [][last'.op = "set_queued" =>
        LET job == inst'[last'.w] IN
        /\ job.hostname = ""
        /\ job.finished = FALSE
        /\ job \in store'
        /\ \A r \in store' : r.folder = job.folder => IsEligible(r)
        /\ (\A X \in store' : IsEligible(X) /\ X # job => Outranks(job, X))
                => get(select_unprocessed(store', tie')) = job
      ]_vars

\* a job another worker holds as started has just been set queued, and
\* next() returns it
C6_Witness ==
    /\ Returned("set_queued")
    /\ \E w \in Workers :
        /\ w # last.w
        /\ Claimed(w)
        /\ inst[w].folder = LastJob.folder
    /\ IsEligible(LastJob)
    /\ NextJob = LastJob

---------------------------------------------------------------------------
(* C7: when no job is eligible, add(key) of a new key followed at once by  *)
(* next() returns the job just added: it starts queued (hostname = '',     *)
(* finished = false) with the priority given, or 0 if none was given,      *)
(* whatever started or finished jobs the table holds.                      *)

C7_AddThenNext ==
    [][last'.op = "add" =>
        \A folder \in Keys, kwargs \in Kwargs :
            /\ \A r \in store : r.folder # folder /\ ~IsEligible(r)
            /\ add(last'.w, Session(folder), kwargs)
            => LET job == get(select_unprocessed(store', tie')) IN
               /\ job # None
               /\ job.folder = folder
               /\ job.hostname = ""
               /\ job.finished = FALSE
               /\ job.priority = IF "priority" \in DOMAIN kwargs THEN kwargs.priority ELSE 0
               /\ job = inst'[last'.w]
               /\ last'.ret = "ok"
      ]_vars

\* a job has just been added with priority 5 to a table whose other job is
\* started or finished, and next() returns the new job
C7_Witness ==
    /\ Returned("add")
    /\ LastJob.priority = 5
    /\ \E r \in store : r.folder # LastJob.folder
    /\ \A r \in store : r.folder # LastJob.folder => ~IsEligible(r)
    /\ NextJob = LastJob

---------------------------------------------------------------------------
(* C8: when no job is eligible (the table is empty, or every job is        *)
(* started or finished) next() returns no job and raises DoesNotExist; it  *)
(* raises only then, and a job it returns is eligible, never a started or  *)
(* finished one.                                                           *)

C8_NotFoundWhenNoneEligible ==
    /\ (\A r \in store : ~IsEligible(r)) => NextJob = None
    /\ last.op = "next" =>
        /\ last.ret = "DoesNotExist" <=> \A r \in store : ~IsEligible(r)
        /\ last.ret = "ok" => LastJob \in store /\ IsEligible(LastJob)

\* next() has just raised DoesNotExist on a table holding a started and a
\* finished job
C8_Witness ==
    /\ last.op = "next"
    /\ last.ret = "DoesNotExist"
    /\ \E r \in store : is_started(r)
    /\ \E r \in store : r.finished

---------------------------------------------------------------------------
(* C9: next() is a pure read: it changes no row of the table, the job it   *)
(* returns is a row of the table and still unclaimed (hostname = '',       *)
(* is_started false), and a second next() right after it returns the same  *)
(* job.                                                                    *)

C9_NextIsPureRead ==
    [][last'.op = "next" =>
        /\ store' = store
        /\ tie' = tie
        /\ last'.ret = "ok" =>
            /\ inst'[last'.w] \in store'
            /\ inst'[last'.w].hostname = ""
            /\ ~is_started(inst'[last'.w])
            /\ get(select_unprocessed(store', tie')) = inst'[last'.w]
      ]_vars

\* next() has just returned a job that the other process holds too: the row
\* is as it was, both copies show it unclaimed, and next() would return it again
C9_Witness ==
    /\ Returned("next")
    /\ \A w \in Workers : inst[w] = LastJob
    /\ LastJob \in store
    /\ ~is_started(LastJob)
    /\ NextJob = LastJob

---------------------------------------------------------------------------
(* C10: the table holds at most one job per key after any calls; add(key)  *)
(* for a key that exists is rejected with IntegrityError and leaves the    *)
(* table, with the existing row, unchanged: it never creates a second row. *)

C10_OneJobPerKey ==
    [][/\ \A folder \in Keys : Cardinality(RowsOf(store', folder)) <= 1
       /\ last'.op = "add" =>
            \A folder \in Keys, kwargs \in Kwargs :
                /\ \E r \in store : r.folder = folder
                /\ add(last'.w, Session(folder), kwargs)
                => /\ last'.ret = "IntegrityError"
                   /\ store' = store
                   /\ inst' = inst
      ]_vars

\* add has just been rejected for the key of a started job, which is still
\* the only row of that key
C10_Witness ==
    /\ last.op = "add"
    /\ last.ret = "IntegrityError"
    /\ \E r \in store : is_started(r) /\ RowsOf(store, r.folder) = {r}

---------------------------------------------------------------------------
(* C11: a job created by add from a job-like object has that object's      *)
(* priority, unless the caller gave a priority keyword, which wins; a job  *)
(* created from a bare key with no priority keyword has priority 0.        *)

\* the priority the created job is to have
ExpectedPriority(session_or_job, kwargs) ==
    IF "priority" \in DOMAIN kwargs THEN kwargs.priority
    ELSE IF IsJob(session_or_job) THEN session_or_job.priority
    ELSE 0

C11_PriorityOfAddedJob ==
    Returned("add") =>
        /\ LastJob.folder = last.session_or_job.folder
        /\ LastJob.priority = ExpectedPriority(last.session_or_job, last.kwargs)
        /\ \A r \in store :
            r.folder = LastJob.folder =>
                r.priority = ExpectedPriority(last.session_or_job, last.kwargs)
        /\ \E r \in store : r.folder = LastJob.folder

\* add has just created a job of priority 0 from a job-like object of
\* priority 5 because the caller gave priority=0, with a job in the table
\* that was created with priority 5 from a job-like object alone
C11_Witness ==
    /\ Returned("add")
    /\ IsJob(last.session_or_job)
    /\ last.session_or_job.priority = 5
    /\ last.kwargs = [priority |-> 0]
    /\ LastJob \in store
    /\ LastJob.priority = 0
    /\ \E r \in store : r.folder # LastJob.folder /\ r.priority = 5


---------------------------------------------------------------------------
(* The upload queue: the table behavior_session_mtrain_upload_queue and    *)
(* the statements the functions run on it.                                 *)

\* a column left NULL; processing and uploaded are NULL, 0 or 1
NULL == -1

\* the row INSERT ... (behavior_session_id) VALUES (?) writes at time t:
\* added defaults to CURRENT_TIMESTAMP, processing and uploaded to NULL
UploadRow(id, t) ==
    [behavior_session_id |-> id, added |-> t, processing |-> NULL, uploaded |-> NULL]

\* a statement and its parameter
Statement(sql, id) == [sql |-> sql, id |-> id]

\* the statements a block can run
Statements ==
    {Statement("create", 0), Statement("select", 0)} \cup
    {Statement(sql, id) : sql \in {"insert", "delete", "processing", "uploaded"},
                          id \in Ids}

\* CREATE TABLE IF NOT EXISTS behavior_session_mtrain_upload_queue (...)
CREATE_TABLE_IF_NOT_EXISTS(d) ==
    IF d.created THEN d ELSE [created |-> TRUE, rows |-> {}]

\* INSERT that replaces the row of a known id by a fresh one
INSERT_OR_REPLACE(d, id, t) ==
    [d EXCEPT !.rows = {r \in @ : r.behavior_session_id # id} \cup {UploadRow(id, t)}]

\* INSERT OR IGNORE INTO ... (behavior_session_id) VALUES (?):
\* behavior_session_id is the primary key, a known id is left alone
INSERT_OR_IGNORE(d, id, t) ==
    IF \E r \in d.rows : r.behavior_session_id = id
    THEN d
    ELSE [d EXCEPT !.rows = @ \cup {UploadRow(id, t)}]

\* DELETE that takes every row
DELETE_All(d, id) == [d EXCEPT !.rows = {}]

\* DELETE FROM ... WHERE behavior_session_id = ?
DELETE(d, id) ==
    [d EXCEPT !.rows = {r \in @ : r.behavior_session_id # id}]

\* UPDATE ... SET processing = 1 without the WHERE
UPDATE_processing_All(d, id) ==
    [d EXCEPT !.rows = {[r EXCEPT !.processing = 1] : r \in @}]

\* UPDATE ... SET processing = 1 WHERE behavior_session_id = ?
UPDATE_processing(d, id) ==
    [d EXCEPT !.rows = {IF r.behavior_session_id = id
                        THEN [r EXCEPT !.processing = 1]
                        ELSE r : r \in @}]

\* UPDATE ... SET processing = 0, uploaded = 1 WHERE behavior_session_id = ?
UPDATE_uploaded(d, id) ==
    [d EXCEPT !.rows = {IF r.behavior_session_id = id
                        THEN [r EXCEPT !.processing = 0, !.uploaded = 1]
                        ELSE r : r \in @}]

\* the SELECT with only the condition on processing
SELECT_outstanding_IgnoresUploaded(d) ==
    {r.behavior_session_id :
        r \in {x \in d.rows : x.processing = 0 \/ x.processing = NULL}}

\* SELECT behavior_session_id FROM ... WHERE (processing = 0 OR processing IS
\* NULL) AND (uploaded = 0 OR uploaded IS NULL), as tuple(int(row[0]) ...)
SELECT_outstanding(d) ==
    {r.behavior_session_id :
        r \in {x \in d.rows : /\ (x.processing = 0 \/ x.processing = NULL)
                              /\ (x.uploaded = 0 \/ x.uploaded = NULL)}}

\* sqlite3.OperationalError: no such table
Raises(d, stmt) == stmt.sql # "create" /\ ~d.created

\* the file after cursor.execute(stmt) at time t
Execute(d, stmt, t) ==
    CASE stmt.sql = "create"     -> CREATE_TABLE_IF_NOT_EXISTS(d)
      [] stmt.sql = "insert"     -> INSERT_OR_IGNORE(d, stmt.id, t)
      [] stmt.sql = "delete"     -> DELETE(d, stmt.id)
      [] stmt.sql = "processing" -> UPDATE_processing(d, stmt.id)
      [] stmt.sql = "uploaded"   -> UPDATE_uploaded(d, stmt.id)
      [] stmt.sql = "select"     -> d

\* what cursor.fetchall() gives after stmt
Fetched(d, stmt) ==
    IF stmt.sql = "select" THEN SELECT_outstanding(d) ELSE {}


---------------------------------------------------------------------------
(* The functions of the upload queue: each is the sequence of              *)
(* `with task_db_cursor()` blocks it runs, one statement per block.        *)

\* initialize_mtrain_upload_queue_in_db()
initialize_mtrain_upload_queue_in_db == <<Statement("create", 0)>>

\* add_behavior_session_to_mtrain_upload_queue(id)
add_behavior_session_to_mtrain_upload_queue(id) ==
    initialize_mtrain_upload_queue_in_db \o <<Statement("insert", id)>>

\* remove_behavior_session_from_mtrain_upload_queue(id)
remove_behavior_session_from_mtrain_upload_queue(id) ==
    initialize_mtrain_upload_queue_in_db \o <<Statement("delete", id)>>

\* get_outstanding_behavior_session_ids_for_processing()
get_outstanding_behavior_session_ids_for_processing == <<Statement("select", 0)>>

\* mark_behavior_session_as_processing without the add before the UPDATE
mark_behavior_session_as_processing_NoAdd(id) ==
    initialize_mtrain_upload_queue_in_db \o <<Statement("processing", id)>>

\* mark_behavior_session_as_processing(id)
mark_behavior_session_as_processing(id) ==
    add_behavior_session_to_mtrain_upload_queue(id) \o <<Statement("processing", id)>>

\* mark_behavior_session_as_uploaded(id)
mark_behavior_session_as_uploaded(id) ==
    add_behavior_session_to_mtrain_upload_queue(id) \o <<Statement("uploaded", id)>>

\* the functions a process calls
Functions == {"add", "remove", "get_outstanding", "mark_processing", "mark_uploaded"}

\* the blocks of a call
Blocks(fn, id) ==
    CASE fn = "add"             -> add_behavior_session_to_mtrain_upload_queue(id)
      [] fn = "remove"          -> remove_behavior_session_from_mtrain_upload_queue(id)
      [] fn = "get_outstanding" -> get_outstanding_behavior_session_ids_for_processing
      [] fn = "mark_processing" -> mark_behavior_session_as_processing(id)
      [] fn = "mark_uploaded"   -> mark_behavior_session_as_uploaded(id)

\* the arguments of a call: get_outstanding takes none
ArgsOf(fn) == IF fn = "get_outstanding" THEN {0} ELSE Ids

---------------------------------------------------------------------------
(* task_db_cursor: begin exclusive; yield cursor; on an exception          *)
(* conn.rollback() and raise, else conn.commit().                          *)

\* the journal sqlite keeps while a transaction is open
Journal(d) == [open |-> TRUE, db |-> d]

\* conn.commit() that throws the writes away
commit_Discards(d, j) == IF j.open THEN j.db ELSE d

\* conn.commit(): the writes stay in the file
commit(d, j) == d

\* conn.rollback() that keeps the writes
rollback_KeepsWrites(d, j) == d

\* conn.rollback(): the file is as the open transaction found it
rollback(d, j) == IF j.open THEN j.db ELSE d

\* how a call by p ended: what it returned or raised, and whether its last
\* block had written to the file when it ended
Ended(p, fn, id, ret, value, wrote) ==
    [p |-> p, fn |-> fn, id |-> id, ret |-> ret, value |-> value, wrote |-> wrote]

\* process p calls fn(id)
Start(p, fn, id) ==
    /\ proc[p] = Idle
    /\ proc' = [proc EXCEPT ![p] = [at |-> "begin", fn |-> fn, id |-> id,
                                   todo |-> Blocks(fn, id)]]
    /\ pre' = db
    /\ UNCHANGED <<db, journal, lock, ulast, qvars, now>>

\* cursor.execute('begin exclusive') in a block of a function
begin_exclusive(p) ==
    /\ proc[p].at = "begin"
    /\ lock = ""
    /\ lock' = p
    /\ journal' = Journal(db)
    /\ proc' = [proc EXCEPT ![p].at = "body"]
    /\ UNCHANGED <<db, ulast, pre, qvars, now>>

\* the statement of the block and the exit of the block: an
\* OperationalError rolls back and ends the call, else the block commits and
\* the call goes on to its next block or returns
execute(p) ==
    /\ proc[p].at = "body"
    /\ proc[p].fn \in Functions
    /\ lock = p
    /\ LET stmt == Head(proc[p].todo)
           rest == Tail(proc[p].todo)
       IN
       IF Raises(db, stmt)
       THEN /\ db' = rollback(db, journal)
            /\ proc' = [proc EXCEPT ![p] = Idle]
            /\ ulast' = Ended(p, proc[p].fn, proc[p].id, "OperationalError", {}, FALSE)
       ELSE /\ db' = commit(Execute(db, stmt, now), journal)
            /\ IF rest = <<>>
               THEN /\ proc' = [proc EXCEPT ![p] = Idle]
                    /\ ulast' = Ended(p, proc[p].fn, proc[p].id, "ok",
                                      Fetched(db, stmt), Execute(db, stmt, now) # db)
               ELSE /\ proc' = [proc EXCEPT ![p].at = "begin", ![p].todo = rest]
                    /\ UNCHANGED ulast
    /\ journal' = NoJournal
    /\ lock' = ""
    /\ UNCHANGED <<pre, qvars, now>>

\* one process calls the functions, each call runs to its end before the next
NextUpload ==
    \/ \E p \in Procs, fn \in Functions : \E id \in ArgsOf(fn) :
          (\A q \in Procs : proc[q] = Idle) /\ Start(p, fn, id)
    \/ \E p \in Procs : begin_exclusive(p)
    \/ \E p \in Procs : execute(p)
    \/ Tick

SpecUpload == Init /\ [][NextUpload]_vars


---------------------------------------------------------------------------
(* A caller's own block, `with task_db_cursor() as c:` around any          *)
(* statements, entered by processes that run side by side.                 *)

\* the block of process p, in its body or with an exception raised in it
Block(at, exc) == [at |-> at, fn |-> "block", id |-> 0, exc |-> exc]

\* the transaction of process p, if p has one open
JournalOf(p) == IF lock = p THEN journal ELSE NoJournal

\* `begin exclusive` takes the lock
with_begin(p) ==
    /\ proc[p] = Idle
    /\ lock = ""
    /\ lock' = p
    /\ journal' = Journal(db)
    /\ pre' = db
    /\ proc' = [proc EXCEPT ![p] = Block("body", "none")]
    /\ UNCHANGED <<db, ulast, qvars, now>>

\* `begin exclusive` waits out the timeout of the connection while another
\* process holds the lock, and raises OperationalError: database is locked
with_locked(p) ==
    /\ proc[p] = Idle
    /\ lock \notin {"", p}
    /\ proc' = [proc EXCEPT ![p] = Block("raised", "OperationalError")]
    /\ UNCHANGED <<db, journal, lock, ulast, pre, qvars, now>>

\* a statement of the body that sqlite accepts
with_execute(p, stmt) ==
    /\ proc[p] = Block("body", "none")
    /\ ~Raises(db, stmt)
    /\ db' = Execute(db, stmt, now)
    /\ UNCHANGED <<journal, lock, proc, ulast, pre, qvars, now>>

\* the body raises: a statement sqlite rejects, a failed assert
with_raise(p) ==
    /\ proc[p] = Block("body", "none")
    /\ proc' = [proc EXCEPT ![p] = Block("raised", "Exception")]
    /\ UNCHANGED <<db, journal, lock, ulast, pre, qvars, now>>

\* else: conn.commit()
task_db_cursor_else(p) ==
    /\ proc[p] = Block("body", "none")
    /\ db' = commit(db, JournalOf(p))
    /\ journal' = NoJournal
    /\ lock' = ""
    /\ proc' = [proc EXCEPT ![p] = Idle]
    /\ ulast' = Ended(p, "block", 0, "ok", {}, db # journal.db)
    /\ UNCHANGED <<pre, qvars, now>>

\* except Exception: conn.rollback(); raise
task_db_cursor_except(p) ==
    /\ proc[p].at = "raised"
    /\ db' = rollback(db, JournalOf(p))
    /\ IF lock = p
       THEN journal' = NoJournal /\ lock' = ""
       ELSE UNCHANGED <<journal, lock>>
    /\ proc' = [proc EXCEPT ![p] = Idle]
    /\ ulast' = Ended(p, "block", 0, proc[p].exc, {}, lock = p /\ db # journal.db)
    /\ UNCHANGED <<pre, qvars, now>>

NextBlocks ==
    \/ \E p \in Procs : with_begin(p)
    \/ \E p \in Procs : with_locked(p)
    \/ \E p \in Procs, stmt \in Statements : with_execute(p, stmt)
    \/ \E p \in Procs : with_raise(p)
    \/ \E p \in Procs : task_db_cursor_else(p)
    \/ \E p \in Procs : task_db_cursor_except(p)

\* the blocks at one reading of the clock, which only the added column of an
\* inserted row takes up
SpecBlocks == Init /\ [][NextBlocks]_vars

---------------------------------------------------------------------------
(* Vocabulary of the upload queue's properties *)

\* the call fn that returned or raised last, seen before any later call begins
AfterCall(fn) == ulast.fn = fn /\ \A q \in Procs : proc[q] = Idle

\* the rows of id in the file d
RowsOfId(d, id) == {r \in d.rows : r.behavior_session_id = id}

\* the rows of the other ids in the file d
OtherRows(d, id) == {r \in d.rows : r.behavior_session_id # id}

---------------------------------------------------------------------------
(* C12: add_behavior_session_to_mtrain_upload_queue is idempotent: called  *)
(* for an id that already has a row, it does not raise and leaves that row *)
(* (added, processing, uploaded) and every other row as they were, so a    *)
(* second add(id) leaves the table a single add(id) left.                  *)

C12_AddIsIdempotent ==
    (AfterCall("add") /\ RowsOfId(pre, ulast.id) # {}) =>
        /\ ulast.ret = "ok"
        /\ db = pre

\* a repeated add, later than the first, of an id whose row is marked as
\* uploaded, next to the row of another id
C12_Witness ==
    /\ AfterCall("add")
    /\ ulast.ret = "ok"
    /\ \E r \in RowsOfId(pre, ulast.id) :
          r.added < now /\ r.processing = 0 /\ r.uploaded = 1
    /\ OtherRows(pre, ulast.id) # {}
    /\ db = pre

---------------------------------------------------------------------------
(* C13: get_outstanding_behavior_session_ids_for_processing returns        *)
(* exactly the ids whose row has processing in {0, NULL} and uploaded in   *)
(* {0, NULL}, and changes no row; the id of an add that inserted its row   *)
(* is among the ids a call returns, and the id of a                        *)
(* mark_behavior_session_as_processing or mark_behavior_session_as_uploaded*)
(* is not.                                                                 *)

Outstanding(d) ==
    {id \in Ids : \E r \in RowsOfId(d, id) :
        r.processing \in {0, NULL} /\ r.uploaded \in {0, NULL}}

C13_OutstandingIds ==
    /\ (AfterCall("get_outstanding") /\ ulast.ret = "ok") =>
          /\ ulast.value = Outstanding(db)
          /\ db = pre
    /\ (AfterCall("add") /\ ulast.ret = "ok" /\ RowsOfId(pre, ulast.id) = {}) =>
          ulast.id \in SELECT_outstanding(db)
    /\ ((AfterCall("mark_processing") \/ AfterCall("mark_uploaded")) /\ ulast.ret = "ok") =>
          ulast.id \notin SELECT_outstanding(db)

\* a call that returns one id and leaves out the other, whose row is uploaded
C13_Witness ==
    /\ AfterCall("get_outstanding")
    /\ ulast.ret = "ok"
    /\ ulast.value # {}
    /\ \E r \in db.rows :
          /\ r.behavior_session_id \notin ulast.value
          /\ r.processing = 0
          /\ r.uploaded = 1

---------------------------------------------------------------------------
(* C14: after mark_behavior_session_as_processing(id) returns the table    *)
(* holds a row for id with processing = 1, after                           *)
(* mark_behavior_session_as_uploaded(id) returns it holds a row for id     *)
(* with processing = 0 and uploaded = 1, whether or not id had a row       *)
(* before the call, and the rows of the other ids are as they were.        *)

C14_MarkedRow ==
    /\ (AfterCall("mark_processing") /\ ulast.ret = "ok") =>
          /\ RowsOfId(db, ulast.id) # {}
          /\ \A r \in RowsOfId(db, ulast.id) : r.processing = 1
          /\ OtherRows(db, ulast.id) = OtherRows(pre, ulast.id)
    /\ (AfterCall("mark_uploaded") /\ ulast.ret = "ok") =>
          /\ RowsOfId(db, ulast.id) # {}
          /\ \A r \in RowsOfId(db, ulast.id) : r.processing = 0 /\ r.uploaded = 1
          /\ OtherRows(db, ulast.id) = OtherRows(pre, ulast.id)

\* mark_behavior_session_as_processing of an id that had no row, next to
\* the row of another id that is not being processed
C14_Witness ==
    /\ AfterCall("mark_processing")
    /\ ulast.ret = "ok"
    /\ RowsOfId(pre, ulast.id) = {}
    /\ \E r \in RowsOfId(db, ulast.id) : r.processing = 1
    /\ \E r \in OtherRows(db, ulast.id) : r.processing # 1

---------------------------------------------------------------------------
(* C15: remove_behavior_session_from_mtrain_upload_queue(id) leaves no row *)
(* for id and every other row as it was; called for an id that has no row  *)
(* it does not raise and changes no row.                                   *)

C15_RemovedRow ==
    AfterCall("remove") =>
        /\ ulast.ret = "ok"
        /\ RowsOfId(db, ulast.id) = {}
        /\ OtherRows(db, ulast.id) = OtherRows(pre, ulast.id)
        /\ RowsOfId(pre, ulast.id) = {} => db.rows = pre.rows
        /\ (RowsOfId(pre, ulast.id) = {} /\ pre.created) => db = pre

\* the remove of an id that had a row, next to the row of another id
C15_Witness ==
    /\ AfterCall("remove")
    /\ ulast.ret = "ok"
    /\ RowsOfId(pre, ulast.id) # {}
    /\ RowsOfId(db, ulast.id) = {}
    /\ OtherRows(db, ulast.id) # {}


---------------------------------------------------------------------------
(* C16: a task_db_cursor block runs as one exclusive transaction: while a  *)
(* process is in the body of its block it holds the lock; when the block   *)
(* exits normally its writes stay in the file and no transaction is left   *)
(* open; when the body raises, the file is again as the block found it,    *)
(* when `begin exclusive` raises the file and the transaction of the lock's*)
(* holder are untouched, and either way the caller gets the exception.     *)

C16_ExclusiveTransaction ==
    [][\A p \in Procs :
        /\ proc[p].at = "body" => lock = p
        /\ (proc[p] = Block("body", "none") /\ proc'[p] = Idle) =>
              /\ db' = db
              /\ journal' = NoJournal
              /\ lock' = ""
              /\ ulast'.p = p /\ ulast'.ret = "ok"
        /\ (proc[p].at = "raised" /\ proc'[p] = Idle /\ lock = p) =>
              /\ db' = pre
              /\ journal' = NoJournal
              /\ lock' = ""
              /\ ulast'.p = p /\ ulast'.ret = "Exception"
        /\ (proc[p].at = "raised" /\ proc'[p] = Idle /\ lock # p) =>
              /\ UNCHANGED <<db, journal, lock>>
              /\ ulast'.p = p /\ ulast'.ret = "OperationalError"]_vars

\* a block that had written to the file when its body raised: the table,
\* two rows at the time the block began, is as the block found it
C16_Witness ==
    /\ ulast.fn = "block"
    /\ ulast.ret = "Exception"
    /\ ulast.wrote
    /\ lock = ""
    /\ db = pre
    /\ Cardinality(db.rows) = 2


---------------------------------------------------------------------------
(* Vocabulary of the properties of the transitions *)

\* the calls that are transitions of a job
Transitions == {"set_started", "set_finished", "set_queued"}

\* the stored row of the job with this key
StoredRow(st, folder) == CHOOSE r \in st : r.folder = folder

\* the transition op of worker w applied to the row r
Apply(op, w, r) ==
    CASE op = "set_started"  -> [r EXCEPT !.hostname = HOSTNAME(w), !.finished = FALSE]
      [] op = "set_finished" -> [r EXCEPT !.finished = TRUE]
      [] op = "set_queued"   -> [r EXCEPT !.hostname = "", !.finished = FALSE]

---------------------------------------------------------------------------
(* C17: a job enters the finished state only from the started state:       *)
(* whenever the finished flag of a stored job changes from false to true,  *)
(* its stored hostname was non-empty immediately before; a queued job is   *)
(* never moved directly to finished.                                       *)

C17_FinishedOnlyFromStarted ==
    [][\A r \in store : \A r2 \in store' :
          (r2.folder = r.folder /\ ~r.finished /\ r2.finished) =>
              r.hostname # ""]_vars

---------------------------------------------------------------------------
(* C18: no operation moves a job from finished back to started: when the   *)
(* finished flag of a stored job changes from true to false, the call was  *)
(* set_queued and the job is queued after it; no set_started leaves a      *)
(* finished job started.                                                   *)

C18_FinishedNeverBackToStarted ==
    [][\A r \in store : \A r2 \in store' :
          (r2.folder = r.folder /\ r.finished /\ ~r2.finished) =>
              /\ last'.op = "set_queued"
              /\ r2.hostname = ""]_vars

---------------------------------------------------------------------------
(* C19: each transition changes, in the store, only the fields it sets on  *)
(* its one target job: set_finished changes only finished and keeps the    *)
(* stored hostname, set_started and set_queued change only hostname and    *)
(* finished; key, priority and added of the target and every field of      *)
(* every other job stay as they are, and no transition or add deletes a    *)
(* row.                                                                    *)

C19_TransitionFrame ==
    [][\A r \in store : \E r2 \in store' :
          /\ r2.folder = r.folder
          /\ r2.priority = r.priority
          /\ r2.added = r.added
          /\ r2 # r =>
                /\ last'.op \in Transitions
                /\ inst'[last'.w].folder = r.folder
                /\ last'.op = "set_finished" => r2.hostname = r.hostname]_vars

---------------------------------------------------------------------------
(* C20: transitions act on the row's current stored value, not on a copy   *)
(* read earlier: when two workers hold the same job and each applies one   *)
(* transition, the second right after the first, the stored row after both *)
(* is the result of the two transitions applied one after the other, in    *)
(* some order, to the row as it was stored before the first.               *)

C20_TransitionsSerialize ==
    [][\A w1, w2 \in Workers :
          (/\ w1 # w2
           /\ last.op \in Transitions /\ last.w = w1
           /\ last'.op \in Transitions /\ last'.w = w2
           /\ inst[w2] # None
           /\ inst[w2].folder = inst[w1].folder
           /\ StoredRow(store, inst[w1].folder) = Apply(last.op, w1, inst[w2])) =>
              StoredRow(store', inst[w1].folder) \in
                  {Apply(last'.op, w2, Apply(last.op, w1, inst[w2])),
                   Apply(last.op, w1, Apply(last'.op, w2, inst[w2]))}]_vars


---------------------------------------------------------------------------
(* C21: set_started is idempotent for a fixed hostname: set_started(h) on  *)
(* a job whose stored row is already started on h leaves the store as it   *)
(* is, so a second set_started(h) yields the store the first one left.     *)

\* the stored row of the job worker w holds is started on hostname
StartedOn(w, hostname) ==
    /\ inst[w] # None
    /\ \E r \in store : /\ r.folder = inst[w].folder
                        /\ r.hostname = hostname
                        /\ is_started(r)

C21_SetStartedIdempotent ==
    [][(/\ last'.op = "set_started"
        /\ StartedOn(last'.w, HOSTNAME(last'.w))
        /\ set_started(last'.w, HOSTNAME(last'.w))) =>
           store' = store]_vars

\* the store a set_started left, which a second set_started of the same
\* worker finds and leaves: the job is started on the worker's host, later
\* than it was added, next to the row of another job
C21_Witness ==
    /\ Returned("set_started")
    /\ StartedOn(last.w, HOSTNAME(last.w))
    /\ LastJob \in store
    /\ LastJob.added < now
    /\ \E r \in store : r.folder # LastJob.folder


---------------------------------------------------------------------------
(* The upload queue called from several processes at once: the blocks of   *)
(* their calls interleave, and a `begin exclusive` that waits longer than  *)
(* the timeout of the connection for the lock raises.                      *)

\* cursor.execute('begin exclusive') in a block of a function raises
\* OperationalError: database is locked; the except branch rolls back a
\* connection without a transaction and the call ends with the exception
database_is_locked(p) ==
    /\ proc[p].at = "begin"
    /\ lock \notin {"", p}
    /\ proc' = [proc EXCEPT ![p] = Idle]
    /\ ulast' = Ended(p, proc[p].fn, proc[p].id, "OperationalError", {}, FALSE)
    /\ UNCHANGED <<db, journal, lock, pre, qvars, now>>

NextConcurrent ==
    \/ \E p \in Procs, fn \in Functions : \E id \in ArgsOf(fn) : Start(p, fn, id)
    \/ \E p \in Procs : begin_exclusive(p)
    \/ \E p \in Procs : database_is_locked(p)
    \/ \E p \in Procs : execute(p)

\* the calls at one reading of the clock, which only the added column of an
\* inserted row takes up
SpecConcurrent == Init /\ [][NextConcurrent]_vars

---------------------------------------------------------------------------
(* C22: mark_behavior_session_as_processing(id) and                        *)
(* mark_behavior_session_as_uploaded(id) each take effect as one atomic    *)
(* step on the shared table: whatever the other processes do meanwhile,    *)
(* at the moment the call returns the row of id exists with the marked     *)
(* values.                                                                 *)

\* the call fn of process p returns in this step
Returns(p, fn) ==
    /\ proc[p].at = "body"
    /\ proc[p].fn = fn
    /\ proc'[p] = Idle
    /\ ulast'.p = p
    /\ ulast'.ret = "ok"

C22_MarkIsAtomic ==
    [][\A p \in Procs :
        /\ Returns(p, "mark_processing") =>
              \E r \in db'.rows : /\ r.behavior_session_id = proc[p].id
                                  /\ r.processing = 1
        /\ Returns(p, "mark_uploaded") =>
              \E r \in db'.rows : /\ r.behavior_session_id = proc[p].id
                                  /\ r.processing = 0
                                  /\ r.uploaded = 1]_vars


---------------------------------------------------------------------------
(* The worker loop: jobs were added, nothing adds or requeues any more,    *)
(* and one worker repeats next() -> set_started(own hostname) ->           *)
(* set_finished(); a next() that raises DoesNotExist is followed by the    *)
(* next next().                                                            *)

\* the worker that runs the loop
LoopWorker == "w1"

\* the tables add() calls leave: every job queued
InitLoop ==
    /\ store \in {T \in Tables : \A r \in T : IsEligible(r)}
    /\ inst = [w \in Workers |-> None]
    /\ last = Call("none", "", "ok")
    /\ now \in 0..MaxClock
    /\ \A r \in store : r.added <= now
    /\ tie \in Listings(Keys)
    /\ UploadUnused

\* job = next(), at the start and after a job is finished or none was found
LoopNext ==
    /\ \/ last.op \in {"none", "set_finished"}
       \/ last = Call("next", LoopWorker, "DoesNotExist")
    /\ next(LoopWorker)

\* job.set_started() on the job next() returned
LoopStart ==
    /\ last = Call("next", LoopWorker, "ok")
    /\ set_started(LoopWorker, HOSTNAME(LoopWorker))

\* job.set_finished() once the work on the started job is done
LoopFinish ==
    /\ last = Call("set_started", LoopWorker, "ok")
    /\ set_finished(LoopWorker)

\* a step of the worker
Loop == LoopNext \/ LoopStart \/ LoopFinish

NextLoop ==
    \/ LoopNext
    \/ LoopStart
    \/ LoopFinish
    \/ Tick

\* the worker keeps running: every call returns and the next one follows
SpecLoop == InitLoop /\ [][NextLoop]_vars /\ WF_vars(Loop)

---------------------------------------------------------------------------
(* C23: with the jobs added and no further add or set_queued, the worker   *)
(* that repeats next() -> set_started(own hostname) -> set_finished()      *)
(* eventually has every job finished, and from then on next() signals      *)
(* DoesNotExist forever; every job is handed out by next() to the worker   *)
(* exactly once.                                                           *)

\* every job in the table is finished
AllFinished == \A r \in store : r.finished

\* next() has just handed the job with this key to the worker
HandedOut(folder) ==
    /\ last = Call("next", LoopWorker, "ok")
    /\ inst[LoopWorker].folder = folder

C23_WorkerFinishesEveryJob ==
    /\ <>[](AllFinished /\ last = Call("next", LoopWorker, "DoesNotExist"))
    /\ \A folder \in Keys :
          (\E r \in store : r.folder = folder) =>
              /\ <>HandedOut(folder)
              /\ [](HandedOut(folder) =>
                      [](~HandedOut(folder) => []~HandedOut(folder)))

\* two jobs, both finished on the worker's host, and next() raising
\* DoesNotExist
C23_Witness ==
    /\ Cardinality(store) = 2
    /\ \A r \in store : r.finished /\ r.hostname = HOSTNAME(LoopWorker)
    /\ last = Call("next", LoopWorker, "DoesNotExist")

=============================================================================
